---- MODULE Spec2Model ----
(***************************************************************************)
(* A model of the compound field types of schematics                       *)
(* (schematics/types/compound.py) and of the Undefined sentinel            *)
(* (schematics/undefined.py).                                              *)
(*                                                                         *)
(* Five specifications, one per group of operations:                       *)
(*   SpecValidate  MultiType.validate, one loop iteration per step         *)
(*   SpecDict      DictType.validate_items, one mapping entry per step     *)
(*   SpecExport    ModelType/ListType/DictType.export_loop                 *)
(*   SpecSentinel  UndefinedType.__new__ called by several threads, and    *)
(*                 UndefinedType.__eq__ / __ne__ on the instances made     *)
(*   SpecList      ListType.to_native (_force_list) and check_length       *)
(***************************************************************************)
EXTENDS Integers, Sequences, FiniteSets, TLC

VARIABLES
    \* MultiType.validate
    validators, value, vi, errors, invoked, vstatus, vraised, vreturned,
    \* DictType.validate_items
    items, badValues, todo, derrors, visited, dstatus, draised,
    \* export_loop
    xField, xInstance, xContext, xResult, xCalls, xstatus,
    \* UndefinedType
    instances, objType, tpc, tcls, tobj, tcalls, returned,
    \* ListType.to_native and ListType.check_length
    lValue, lMin, lMax, lstatus, lResult, lRaised

vVars == <<validators, value, vi, errors, invoked, vstatus, vraised, vreturned>>
dVars == <<items, badValues, todo, derrors, visited, dstatus, draised>>
xVars == <<xField, xInstance, xContext, xResult, xCalls, xstatus>>
sVars == <<instances, objType, tpc, tcls, tobj, tcalls, returned>>
lVars == <<lValue, lMin, lMax, lstatus, lResult, lRaised>>
vars == <<vVars, dVars, xVars, sVars, lVars>>

(***************************************************************************)
(* Bounds of the model.                                                    *)
(***************************************************************************)
MaxValidators == 3
MaxValue == 2
MaxDictKeys == 3
MaxElems == 2
MaxThreads == 2
MaxCalls == 2
MaxKeyLen == 2
MaxKeys == 2
MaxLen == 3
MaxSize == 3

\* No value (nothing was returned)
NoValue == -1

\* The empty mapping {} (a function with an empty domain).
EmptyMap == <<>>

\* The locators a structured report is keyed by.
Keys == {"a", "b"}

(***************************************************************************)
(* The exception classes of schematics.exceptions, as section 7 of the     *)
(* specification describes them: ValidationError and ConversionError are   *)
(* separate kinds, StopValidation is a variant of ModelValidationError.    *)
(***************************************************************************)
ExceptionKinds == {"ValidationError", "ModelValidationError", "StopValidation"}

\* isinstance(exc, cls) for an exception of kind `kind`
IsInstance(kind, cls) ==
    \/ kind = cls
    \/ kind = "StopValidation" /\ cls = "ModelValidationError"

\* An exception: its class, and its messages, either a mapping (map) or a
\* flat list (list).
Exc(kind, map, list) == [kind |-> kind, map |-> map, list |-> list]

NoExc == Exc("none", EmptyMap, <<>>)

(***************************************************************************)
(* MultiType.validate                                                      *)
(***************************************************************************)

\* What calling validator number i does: it returns, or it raises.  A
\* ValidationError carries a flat list of messages (as check_length raises
\* it), the two structured kinds carry a map; every message names the
\* validator that produced it.
ValidatorResults(i) ==
    {NoExc, Exc("ValidationError", EmptyMap, <<i>>)}
        \cup {Exc(k, [x \in {key} |-> i], <<>>) :
                 k \in {"ModelValidationError", "StopValidation"}, key \in Keys}

ValidatorLists ==
    UNION {{vs \in [1..n -> UNION {ValidatorResults(i) : i \in 1..n}] :
               \A i \in 1..n : vs[i] \in ValidatorResults(i)} :
           n \in 0..MaxValidators}

\* dict.update: errors.update(messages)
Update(d, m) ==
    [k \in DOMAIN d \cup DOMAIN m |-> IF k \in DOMAIN m THEN m[k] ELSE d[k]]

\* `except ModelValidationError as exc` catches exc
Caught(exc) == IsInstance(exc.kind, "ModelValidationError")

\* `if isinstance(exc, StopValidation): break`
Breaks(exc) == IsInstance(exc.kind, "StopValidation")

\* the state on entry to validate: errors = {}
InitValidate ==
    /\ validators \in ValidatorLists
    /\ value \in 0..MaxValue
    /\ vi = 1
    /\ errors = EmptyMap
    /\ invoked = <<>>
    /\ vstatus = "running"
    /\ vraised = NoExc
    /\ vreturned = NoValue

IdleValidate ==
    /\ validators = <<>>
    /\ value = 0
    /\ vi = 1
    /\ errors = EmptyMap
    /\ invoked = <<>>
    /\ vstatus = "idle"
    /\ vraised = NoExc
    /\ vreturned = NoValue

InLoop == vstatus = "running" /\ vi <= Len(validators)

\* validator(value, env=env) returns normally
ValidatorReturns ==
    /\ InLoop
    /\ validators[vi] = NoExc
    /\ invoked' = Append(invoked, vi)
    /\ vi' = vi + 1
    /\ UNCHANGED <<validators, value, errors, vstatus, vraised, vreturned, dVars, xVars, sVars, lVars>>

\* validator raises, the except clause catches it and merges its messages;
\* a StopValidation leaves the loop
ValidatorRaisesCaught ==
    /\ InLoop
    /\ validators[vi] # NoExc
    /\ Caught(validators[vi])
    /\ invoked' = Append(invoked, vi)
    /\ errors' = Update(errors, validators[vi].map)
    /\ vi' = IF Breaks(validators[vi]) THEN Len(validators) + 1 ELSE vi + 1
    /\ UNCHANGED <<validators, value, vstatus, vraised, vreturned, dVars, xVars, sVars, lVars>>

\* validator raises something the except clause does not catch: the
\* exception leaves validate as it is
ValidatorRaisesUncaught ==
    /\ InLoop
    /\ validators[vi] # NoExc
    /\ ~Caught(validators[vi])
    /\ invoked' = Append(invoked, vi)
    /\ vstatus' = "raised"
    /\ vraised' = validators[vi]
    /\ UNCHANGED <<validators, value, vi, errors, vreturned, dVars, xVars, sVars, lVars>>

\* after the loop: `if errors: raise ValidationError(errors)`
ValidateRaises ==
    /\ vstatus = "running"
    /\ vi > Len(validators)
    /\ errors # EmptyMap
    /\ vstatus' = "raised"
    /\ vraised' = Exc("ValidationError", errors, <<>>)
    /\ UNCHANGED <<validators, value, vi, errors, invoked, vreturned, dVars, xVars, sVars, lVars>>

\* after the loop: `return value`
ValidateReturns ==
    /\ vstatus = "running"
    /\ vi > Len(validators)
    /\ errors = EmptyMap
    /\ vstatus' = "returned"
    /\ vreturned' = value
    /\ UNCHANGED <<validators, value, vi, errors, invoked, vraised, dVars, xVars, sVars, lVars>>

NextValidate ==
    \/ ValidatorReturns
    \/ ValidatorRaisesCaught
    \/ ValidatorRaisesUncaught
    \/ ValidateRaises
    \/ ValidateReturns

ValidateDone == vstatus \in {"returned", "raised"}

\* The indices in the invocation log
Invoked == {invoked[j] : j \in 1..Len(invoked)}

\* The validators that were invoked and failed
InvokedFailed == {i \in Invoked : validators[i] # NoExc}

\* The message maps of validators 1..n that were invoked and failed, merged
\* in declared order
RECURSIVE MergedUpTo(_)
MergedUpTo(n) ==
    IF n = 0 THEN EmptyMap
    ELSE IF n \in InvokedFailed
         THEN Update(MergedUpTo(n - 1), validators[n].map)
         ELSE MergedUpTo(n - 1)

\* C1: validators run in declared order; after a validator fails with
\* StopValidation no later validator is invoked, so the report raised holds
\* no message of a later validator; a failure that is not StopValidation
\* does not stop the loop: the validator after it is invoked too.
C1_DeclaredOrderStopOnly ==
    /\ \A j \in 1..Len(invoked) : invoked[j] = j
    /\ \A j \in 1..Len(invoked) :
          validators[invoked[j]].kind = "StopValidation" => j = Len(invoked)
    /\ ValidateDone =>
          \A i \in 1..Len(validators) :
             (\E s \in 1..(i - 1) : validators[s].kind = "StopValidation")
                => /\ \A k \in DOMAIN vraised.map : vraised.map[k] # i
                   /\ \A k \in 1..Len(vraised.list) : vraised.list[k] # i
    /\ ValidateDone =>
          \A i \in InvokedFailed :
             (validators[i].kind # "StopValidation" /\ i < Len(validators))
                => (i + 1) \in Invoked

\* The part of C1 about StopValidation alone (it holds of the code).
StopHaltsLoop ==
    /\ \A j \in 1..Len(invoked) : invoked[j] = j
    /\ \A j \in 1..Len(invoked) :
          validators[invoked[j]].kind = "StopValidation" => j = Len(invoked)

\* C2: validate ends in one of two ways: it returns the value it was given,
\* exactly when no invoked validator failed; or it raises one aggregate
\* ValidationError whose report is not empty and holds the merged messages
\* of every validator that was invoked and failed.
C2_ReturnsOrAggregates ==
    ValidateDone =>
       /\ (vstatus = "returned") <=> (InvokedFailed = {})
       /\ vstatus = "returned" => vreturned = value
       /\ vstatus = "raised" =>
             /\ vraised.kind = "ValidationError"
             /\ vraised.map # EmptyMap \/ vraised.list # <<>>
             /\ vraised.map = MergedUpTo(Len(validators))
             /\ \A i \in InvokedFailed :
                   \A k \in 1..Len(validators[i].list) :
                      \E n \in 1..Len(vraised.list) :
                         vraised.list[n] = validators[i].list[k]

(***************************************************************************)
(* DictType.validate_items                                                 *)
(***************************************************************************)

\* The mappings validate_items is given: some keys, a value under each
DictKeys == 1..MaxDictKeys

Mappings == UNION {[ks -> 0..MaxValue] : ks \in SUBSET DictKeys}

\* self.field.validate(value) of the inner field (the field contract of
\* section 2 of the specification): it returns, or raises a ValidationError
\* that names the value it rejects
FieldValidate(v) ==
    IF v \in badValues THEN Exc("ValidationError", EmptyMap, <<v>>) ELSE NoExc

\* `except ValidationError as exc` catches exc
CaughtByItems(exc) == IsInstance(exc.kind, "ValidationError")

\* A faulty variant of StoreError: only the first error is kept
StoreFirstErrorOnly(errs, key, exc) ==
    IF errs = EmptyMap THEN [k \in {key} |-> exc] ELSE errs

\* `errors[key] = exc`
StoreError(errs, key, exc) ==
    [k \in DOMAIN errs \cup {key} |-> IF k = key THEN exc ELSE errs[k]]

\* the state on entry to validate_items: errors = {}
InitDict ==
    /\ items \in Mappings
    /\ badValues \in SUBSET (0..MaxValue)
    /\ todo = DOMAIN items
    /\ derrors = EmptyMap
    /\ visited = {}
    /\ dstatus = "running"
    /\ draised = NoExc

IdleDict ==
    /\ items = EmptyMap
    /\ badValues = {}
    /\ todo = {}
    /\ derrors = EmptyMap
    /\ visited = {}
    /\ dstatus = "idle"
    /\ draised = NoExc

\* one iteration of `for key, value in iteritems(items)` whose validate(value)
\* returns; the mapping is iterated in no particular order
EntryPasses ==
    /\ dstatus = "running"
    /\ \E key \in todo :
          /\ FieldValidate(items[key]) = NoExc
          /\ todo' = todo \ {key}
          /\ visited' = visited \cup {key}
    /\ UNCHANGED <<items, badValues, derrors, dstatus, draised, vVars, xVars, sVars, lVars>>

\* one iteration whose validate(value) raises: the error is kept under the key
EntryFails ==
    /\ dstatus = "running"
    /\ \E key \in todo :
          /\ FieldValidate(items[key]) # NoExc
          /\ CaughtByItems(FieldValidate(items[key]))
          /\ derrors' = StoreError(derrors, key, FieldValidate(items[key]))
          /\ todo' = todo \ {key}
          /\ visited' = visited \cup {key}
    /\ UNCHANGED <<items, badValues, dstatus, draised, vVars, xVars, sVars, lVars>>

\* after the loop: `if errors: raise ValidationError(errors)`
ItemsRaises ==
    /\ dstatus = "running"
    /\ todo = {}
    /\ derrors # EmptyMap
    /\ dstatus' = "raised"
    /\ draised' = Exc("ValidationError", derrors, <<>>)
    /\ UNCHANGED <<items, badValues, todo, derrors, visited, vVars, xVars, sVars, lVars>>

\* after the loop, with no error: the function ends
ItemsReturns ==
    /\ dstatus = "running"
    /\ todo = {}
    /\ derrors = EmptyMap
    /\ dstatus' = "returned"
    /\ UNCHANGED <<items, badValues, todo, derrors, visited, draised, vVars, xVars, sVars, lVars>>

NextDict ==
    \/ EntryPasses
    \/ EntryFails
    \/ ItemsRaises
    \/ ItemsReturns

ItemsDone == dstatus \in {"returned", "raised"}

\* The keys whose value the inner field rejects
FailingKeys == {k \in DOMAIN items : FieldValidate(items[k]) # NoExc}

\* C3: validate_items validates every value of the mapping, and raises one
\* ValidationError whose map has exactly the failing keys, each with the
\* error raised for its value, if some value fails; it raises nothing if
\* none fails.
C3_OneEntryPerFailingKey ==
    ItemsDone =>
       /\ visited = DOMAIN items
       /\ FailingKeys # {} =>
             /\ dstatus = "raised"
             /\ draised.kind = "ValidationError"
             /\ DOMAIN draised.map = FailingKeys
             /\ \A k \in FailingKeys : draised.map[k] = FieldValidate(items[k])
       /\ FailingKeys = {} => dstatus = "returned" /\ draised = NoExc

\* Two values failed, one passed, and the aggregate was raised
C3_Witness ==
    /\ dstatus = "raised"
    /\ Cardinality(FailingKeys) >= 2
    /\ \E k \in DOMAIN items : k \notin FailingKeys
    /\ \E k1, k2 \in FailingKeys : draised.map[k1] # draised.map[k2]

(***************************************************************************)
(* export_loop of ModelType, ListType and DictType                         *)
(***************************************************************************)

\* Values: None, a native leaf value, a primitive, a list, a dict
NoneV == [t |-> "none"]
Native(v) == [t |-> "native", v |-> v]
Prim(v) == [t |-> "prim", v |-> v]
ListV(s) == [t |-> "list", elems |-> s]
DictV(m) == [t |-> "dict", elems |-> m]

\* len(x) of a list or a dict
SizeOf(x) == Cardinality(DOMAIN x.elems)

\* bool(x): None and the empty containers are false
Truthy(x) ==
    CASE x.t = "none" -> FALSE
      [] x.t \in {"list", "dict"} -> SizeOf(x) > 0
      [] OTHER -> TRUE

\* The export context: role, print_none, serialize_when_undefined
Roles == {"default", "public"}

Contexts ==
    [role : Roles, print_none : BOOLEAN, serialize_when_undefined : BOOLEAN]

\* Fields: scalar fields (leaf), ModelType, and ListType / DictType of a field
LeafFields == {[kind |-> "leaf", allow_none |-> b] : b \in BOOLEAN}

ModelFields == {[kind |-> "model", allow_none |-> b] : b \in BOOLEAN}

ContainerFields(inner) ==
    {[kind |-> k, allow_none |-> b, field |-> f] :
        k \in {"list", "dict"}, b \in BOOLEAN, f \in inner}

InnerFields == LeafFields \cup ModelFields
                  \cup ContainerFields(LeafFields \cup ModelFields)

TopFields == ModelFields \cup ContainerFields(InnerFields)

\* What schematics.transforms.export_loop makes of a model instance: nothing,
\* an empty mapping, or a mapping with an entry; with print_none forced it
\* yields a mapping (section 4.6 of the specification)
ModelShapes == {NoneV, DictV(<<>>), DictV([k \in {1} |-> Prim(1)])}

\* The native values of a field; a container holds at most n elements, a
\* container nested in it at most half as many
RECURSIVE Instances(_, _)
Instances(f, n) ==
    CASE f.kind = "leaf" -> {NoneV, Native(1)}
      [] f.kind = "model" -> {[t |-> "model", shaped |-> sh] : sh \in ModelShapes}
      [] f.kind = "list" ->
            {ListV(sq) : sq \in UNION {[1..k -> Instances(f.field, n \div 2)] :
                                          k \in 0..n}}
      [] f.kind = "dict" ->
            {DictV(m) : m \in UNION {[ks -> Instances(f.field, n \div 2)] :
                                        ks \in SUBSET (1..n)}}

\* hasattr(field, 'export_loop'): the compound fields have it
HasExportLoop(f) == f.kind \in {"model", "list", "dict"}

\* field_converter(field, value), the leaf conversion the caller passes in
FieldConverter(f, v) == IF v = NoneV THEN NoneV ELSE Prim(v.v)

\* transforms.export_loop(model_class, model_instance, field_converter, ...)
TransformsExportLoop(inst, ctx) == inst.shaped

\* The keyword arguments of the call self.field.export_loop(value,
\* field_converter, role=role, serialize_when_undefined=...): print_none is
\* not passed, so the callee's default (False) applies
InnerContext(ctx) ==
    [role |-> ctx.role, print_none |-> FALSE,
     serialize_when_undefined |-> ctx.serialize_when_undefined]

RECURSIVE ExportLoop(_, _, _)

\* shaped, for one element of a list or dict
ShapeElement(self, v, ctx) ==
    IF HasExportLoop(self.field)
    THEN ExportLoop(self.field, v, InnerContext(ctx))
    ELSE FieldConverter(self.field, v)

\* feels_empty, for one element
FeelsEmpty(self, shaped) ==
    IF HasExportLoop(self.field)
    THEN Truthy(shaped) /\ SizeOf(shaped) = 0
    ELSE shaped = NoneV

\* A faulty variant of Included: the `elif print_none` branch is missing
IncludedWithoutPrintNone(self, shaped, ctx) ==
    IF FeelsEmpty(self, shaped) /\ self.field.allow_none THEN TRUE
    ELSE IF shaped # NoneV THEN TRUE
    ELSE FALSE

\* The if / elif chain that appends a shaped element to data
Included(self, shaped, ctx) ==
    IF FeelsEmpty(self, shaped) /\ self.field.allow_none THEN TRUE
    ELSE IF shaped # NoneV THEN TRUE
    ELSE IF ctx.print_none THEN TRUE
    ELSE FALSE

\* data after the loop of ListType.export_loop over the elements sq
RECURSIVE ListData(_, _, _)
ListData(self, sq, ctx) ==
    IF sq = <<>> THEN <<>>
    ELSE LET front == ListData(self, SubSeq(sq, 1, Len(sq) - 1), ctx)
             shaped == ShapeElement(self, sq[Len(sq)], ctx)
         IN  IF Included(self, shaped, ctx) THEN Append(front, shaped) ELSE front

\* data after the loop of DictType.export_loop over the mapping m
DictData(self, m, ctx) ==
    LET kept == {k \in DOMAIN m : Included(self, ShapeElement(self, m[k], ctx), ctx)}
    IN  [k \in kept |-> ShapeElement(self, m[k], ctx)]

\* The return of ListType.export_loop and DictType.export_loop
ContainerBoundary(self, data, ctx) ==
    IF SizeOf(data) > 0 THEN data
    ELSE IF SizeOf(data) = 0 /\ self.allow_none THEN data
    ELSE IF ctx.print_none THEN data
    ELSE NoneV

\* The return of ModelType.export_loop
ModelBoundary(self, shaped, ctx) ==
    IF Truthy(shaped) /\ SizeOf(shaped) = 0 /\ self.allow_none THEN shaped
    ELSE IF Truthy(shaped) THEN shaped
    ELSE IF ctx.print_none THEN shaped
    ELSE NoneV

\* The container a field builds before it decides what to return
Built(self, inst, ctx) ==
    CASE self.kind = "model" -> TransformsExportLoop(inst, ctx)
      [] self.kind = "list" -> ListV(ListData(self, inst.elems, ctx))
      [] self.kind = "dict" -> DictV(DictData(self, inst.elems, ctx))

ExportLoop(self, inst, ctx) ==
    IF self.kind = "model"
    THEN ModelBoundary(self, Built(self, inst, ctx), ctx)
    ELSE ContainerBoundary(self, Built(self, inst, ctx), ctx)

\* Every call of an inner field's export_loop made below
\* self.export_loop(inst, ...): the field called, its nesting depth and the
\* context it is given
RECURSIVE InnerCalls(_, _, _, _)
InnerCalls(self, inst, ctx, depth) ==
    IF self.kind \in {"list", "dict"} /\ HasExportLoop(self.field)
    THEN UNION {{[callee |-> self.field.kind, depth |-> depth + 1,
                  context |-> InnerContext(ctx)]}
                   \cup InnerCalls(self.field, inst.elems[i], InnerContext(ctx),
                                   depth + 1) :
                i \in DOMAIN inst.elems}
    ELSE {}

InitExport ==
    /\ xField \in TopFields
    /\ xInstance \in Instances(xField, MaxElems)
    /\ xContext \in Contexts
    /\ (xField.kind = "model" /\ xContext.print_none) => xInstance.shaped # NoneV
    /\ xResult = NoneV
    /\ xCalls = {}
    /\ xstatus = "called"

IdleExport ==
    /\ xField = [kind |-> "leaf", allow_none |-> FALSE]
    /\ xInstance = NoneV
    /\ xContext = [role |-> "default", print_none |-> FALSE,
                   serialize_when_undefined |-> FALSE]
    /\ xResult = NoneV
    /\ xCalls = {}
    /\ xstatus = "idle"

\* ModelType.export_loop(model_instance, field_converter, role, print_none,
\* serialize_when_undefined)
ModelExportLoop ==
    /\ xstatus = "called"
    /\ xField.kind = "model"
    /\ xResult' = ExportLoop(xField, xInstance, xContext)
    /\ xCalls' = InnerCalls(xField, xInstance, xContext, 0)
    /\ xstatus' = "returned"
    /\ UNCHANGED <<xField, xInstance, xContext, vVars, dVars, sVars, lVars>>

\* ListType.export_loop(list_instance, field_converter, role, print_none,
\* serialize_when_undefined)
ListExportLoop ==
    /\ xstatus = "called"
    /\ xField.kind = "list"
    /\ xResult' = ExportLoop(xField, xInstance, xContext)
    /\ xCalls' = InnerCalls(xField, xInstance, xContext, 0)
    /\ xstatus' = "returned"
    /\ UNCHANGED <<xField, xInstance, xContext, vVars, dVars, sVars, lVars>>

\* DictType.export_loop(dict_instance, field_converter, role, print_none,
\* serialize_when_undefined)
DictExportLoop ==
    /\ xstatus = "called"
    /\ xField.kind = "dict"
    /\ xResult' = ExportLoop(xField, xInstance, xContext)
    /\ xCalls' = InnerCalls(xField, xInstance, xContext, 0)
    /\ xstatus' = "returned"
    /\ UNCHANGED <<xField, xInstance, xContext, vVars, dVars, sVars, lVars>>

NextExport ==
    \/ ModelExportLoop
    \/ ListExportLoop
    \/ DictExportLoop

\* The empty container of a field's kind
EmptyOf(f) == IF f.kind = "list" THEN ListV(<<>>) ELSE DictV(<<>>)

\* C4: each of ModelType, ListType and DictType returns the container it
\* built if it has an entry, else an empty container if allow_none() holds,
\* else an empty container if print_none is forced, else None.
C4_BoundaryRuleAllVariants ==
    xstatus = "returned" =>
       LET built == Built(xField, xInstance, xContext)
       IN  xResult = IF Truthy(built) THEN built
                     ELSE IF xField.allow_none THEN EmptyOf(xField)
                     ELSE IF xContext.print_none THEN EmptyOf(xField)
                     ELSE NoneV

\* The same rule for ListType and DictType alone (it holds of the code).
BoundaryRuleOfContainers ==
    (xstatus = "returned" /\ xField.kind \in {"list", "dict"}) =>
       LET built == Built(xField, xInstance, xContext)
       IN  xResult = IF Truthy(built) THEN built
                     ELSE IF xField.allow_none THEN EmptyOf(xField)
                     ELSE IF xContext.print_none THEN EmptyOf(xField)
                     ELSE NoneV

\* shaped, for the element at index or key i of the exported container
ShapedAt(i) == ShapeElement(xField, xInstance.elems[i], xContext)

\* The elements the inclusion rule keeps
KeptByRule ==
    {i \in DOMAIN xInstance.elems :
        \/ FeelsEmpty(xField, ShapedAt(i)) /\ xField.field.allow_none
        \/ ShapedAt(i) # NoneV
        \/ xContext.print_none}

\* The j-th smallest index the rule keeps
NthKept(j) == CHOOSE i \in KeptByRule : Cardinality({k \in KeptByRule : k <= i}) = j

C10_ContextThreaded ==
    xstatus = "returned" => \A c \in xCalls : c.context = xContext

\* role and serialize_when_undefined alone are threaded (it holds of the code).
RoleAndPolicyThreaded ==
    xstatus = "returned" =>
       \A c \in xCalls :
          /\ c.context.role = xContext.role
          /\ c.context.serialize_when_undefined = xContext.serialize_when_undefined

(***************************************************************************)
(* UndefinedType: __new__ called from several threads, __eq__ and __ne__   *)
(***************************************************************************)

\* UndefinedType and two subclasses of it
SentinelClasses == {"UndefinedType", "SubA", "SubB"}

\* The types of the values that are no sentinel: None, an int, an object
OtherClasses == {"NoneType", "int", "object"}

\* issubclass(c, d)
IsSubclass(c, d) ==
    \/ c = d
    \/ d = "object"
    \/ c \in SentinelClasses /\ d = "UndefinedType"

Threads == 1..MaxThreads

\* The objects made so far by object.__new__
Objects == 1..Len(objType)

\* An operand of == : its type, and which object it is
Operand(o) == [type |-> objType[o], id |-> o]

OtherValues == {[type |-> c, id |-> 0] : c \in OtherClasses}

\* UndefinedType.__eq__(self, other)
EqMethod(self, other) ==
    \/ self.type = other.type
    \/ other.type = "UndefinedType" /\ IsSubclass(self.type, "UndefinedType")

\* a == b as Python evaluates it: the right operand's __eq__ goes first when
\* its type is a proper subclass of the left one's; the __eq__ of the values
\* that are no sentinel returns NotImplemented for a sentinel, which hands
\* the comparison to the other operand, and last to identity
PyEq(a, b) ==
    LET sa == a.type \in SentinelClasses
        sb == b.type \in SentinelClasses
        reflectedFirst == a.type # b.type /\ IsSubclass(b.type, a.type)
    IN  IF reflectedFirst /\ sb THEN EqMethod(b, a)
        ELSE IF sa THEN EqMethod(a, b)
        ELSE IF sb THEN EqMethod(b, a)
        ELSE a = b

\* UndefinedType.__ne__(self, other): not self == other
NeMethod(self, other) == ~PyEq(self, other)

\* a != b as Python evaluates it, with the same order of dispatch
PyNe(a, b) ==
    LET sa == a.type \in SentinelClasses
        sb == b.type \in SentinelClasses
        reflectedFirst == a.type # b.type /\ IsSubclass(b.type, a.type)
    IN  IF reflectedFirst /\ sb THEN NeMethod(b, a)
        ELSE IF sa THEN NeMethod(a, b)
        ELSE IF sb THEN NeMethod(b, a)
        ELSE a # b

\* The state once the module is imported: `Undefined = UndefinedType()` has
\* made the instance of the base class; no thread is in a constructor
InitSentinel ==
    /\ instances = [c \in {"UndefinedType"} |-> 1]
    /\ objType = <<"UndefinedType">>
    /\ tpc = [t \in Threads |-> "idle"]
    /\ tcls = [t \in Threads |-> "UndefinedType"]
    /\ tobj = [t \in Threads |-> 0]
    /\ tcalls = [t \in Threads |-> 0]
    /\ returned = {}

IdleSentinel ==
    /\ instances = [c \in {"UndefinedType"} |-> 1]
    /\ objType = <<"UndefinedType">>
    /\ tpc = <<>>
    /\ tcls = <<>>
    /\ tobj = <<>>
    /\ tcalls = <<>>
    /\ returned = {}

\* a thread calls cls(): __new__(cls) is entered
CallNew(t, cls) ==
    /\ tpc[t] = "idle"
    /\ tcalls[t] < MaxCalls
    /\ tpc' = [tpc EXCEPT ![t] = "check"]
    /\ tcls' = [tcls EXCEPT ![t] = cls]
    /\ tcalls' = [tcalls EXCEPT ![t] = @ + 1]
    /\ UNCHANGED <<instances, objType, tobj, returned, vVars, dVars, xVars, lVars>>

\* `if cls not in cls.__instances:`
CheckInstances(t) ==
    /\ tpc[t] = "check"
    /\ tpc' = [tpc EXCEPT ![t] = IF tcls[t] \notin DOMAIN instances
                                 THEN "create" ELSE "return"]
    /\ UNCHANGED <<instances, objType, tcls, tobj, tcalls, returned,
                   vVars, dVars, xVars, lVars>>

\* `object.__new__(cls)`: a new object of the class
ObjectNew(t) ==
    /\ tpc[t] = "create"
    /\ objType' = Append(objType, tcls[t])
    /\ tobj' = [tobj EXCEPT ![t] = Len(objType) + 1]
    /\ tpc' = [tpc EXCEPT ![t] = "store"]
    /\ UNCHANGED <<instances, tcls, tcalls, returned, vVars, dVars, xVars, lVars>>

\* `cls.__instances[cls] = <the new object>`
StoreInstance(t) ==
    /\ tpc[t] = "store"
    /\ instances' = [c \in DOMAIN instances \cup {tcls[t]} |->
                        IF c = tcls[t] THEN tobj[t] ELSE instances[c]]
    /\ tpc' = [tpc EXCEPT ![t] = "return"]
    /\ UNCHANGED <<objType, tcls, tobj, tcalls, returned, vVars, dVars, xVars, lVars>>

\* `return cls.__instances[cls]`
ReturnInstance(t) ==
    /\ tpc[t] = "return"
    /\ returned' = returned \cup {[cls |-> tcls[t], obj |-> instances[tcls[t]]]}
    /\ tpc' = [tpc EXCEPT ![t] = "idle"]
    /\ UNCHANGED <<instances, objType, tcls, tobj, tcalls, vVars, dVars, xVars, lVars>>

NextSentinel ==
    \E t \in Threads :
       \/ \E cls \in SentinelClasses : CallNew(t, cls)
       \/ CheckInstances(t)
       \/ ObjectNew(t)
       \/ StoreInstance(t)
       \/ ReturnInstance(t)

\* C6: any two sentinel instances, of the base class or of any subclasses,
\* compare equal and not unequal, in both orders; a sentinel equals no value
\* that is not a sentinel, None included.
C6_AllSentinelsEqual ==
    /\ \A a, b \in Objects :
          PyEq(Operand(a), Operand(b)) /\ ~PyNe(Operand(a), Operand(b))
    /\ \A a \in Objects : \A x \in OtherValues :
          ~PyEq(Operand(a), x) /\ ~PyEq(x, Operand(a))

\* What holds of the code: a sentinel equals the sentinels of its own class
\* and of the base class, in both orders, and no other value.
SentinelEqualsOwnClassAndBase ==
    /\ \A a, b \in Objects :
          (objType[a] = objType[b] \/ "UndefinedType" \in {objType[a], objType[b]})
             <=> PyEq(Operand(a), Operand(b))
    /\ \A a, b \in Objects : PyNe(Operand(a), Operand(b)) <=> ~PyEq(Operand(a), Operand(b))
    /\ \A a \in Objects : \A x \in OtherValues :
          ~PyEq(Operand(a), x) /\ ~PyEq(x, Operand(a))

\* C7: whatever the interleaving of the constructor calls, all calls for one
\* class return the same instance, and at most one instance of a class is
\* ever made.
C7_OneInstancePerClass ==
    /\ \A r1, r2 \in returned : r1.cls = r2.cls => r1.obj = r2.obj
    /\ \A c \in SentinelClasses :
          Cardinality({o \in Objects : objType[o] = c}) <= 1

(***************************************************************************)
(* ListType: to_native (_force_list) and check_length                      *)
(***************************************************************************)

\* min_size / max_size = None
NoSize == -1

\* Strings are sequences of characters; the characters of the keys are digits
DigitChars == <<"0", "1", "2", "3", "4", "5", "6", "7", "8", "9">>

KeyChars == {"0", "1", "2"}

DigitValue(c) == CHOOSE d \in 0..9 : DigitChars[d + 1] = c

\* int(s) of a string of digits (leading zeros are accepted)
RECURSIVE ParseInt(_)
ParseInt(str) ==
    IF Len(str) = 0 THEN 0
    ELSE 10 * ParseInt(SubSeq(str, 1, Len(str) - 1)) + DigitValue(str[Len(str)])

\* unicode(k) of an integer k >= 0: its decimal digits, no leading zero
RECURSIVE FormatInt(_)
FormatInt(k) ==
    IF k < 10 THEN <<DigitChars[k + 1]>>
    ELSE Append(FormatInt(k \div 10), DigitChars[(k % 10) + 1])

KeyStrings == UNION {[1..n -> KeyChars] : n \in 1..MaxKeyLen}

RawValues == {"a", "b"}

\* The keyed mappings given to to_native: some keys, a value under each
KeySets ==
    UNION {{{f[i] : i \in 1..n} : f \in [1..n -> KeyStrings]} : n \in 0..MaxKeys}

KeyedMappings == UNION {[ks -> RawValues] : ks \in KeySets}

\* The values given to to_native: None, a list, a keyed mapping
ToNativeInputs ==
    {NoneV} \cup {ListV(sq) : sq \in UNION {[1..n -> RawValues] : n \in 0..MaxKeys}}
            \cup {DictV(m) : m \in KeyedMappings}

\* sorted(map(int, value.keys())): the integers of the keys ks, ascending,
\* one per key
RECURSIVE SortedInts(_)
SortedInts(ks) ==
    IF ks = {} THEN <<>>
    ELSE LET k == CHOOSE k \in ks : \A j \in ks : ParseInt(k) <= ParseInt(j)
         IN  <<ParseInt(k)>> \o SortedInts(ks \ {k})

\* _force_list(value): the list, or the exception that leaves it.  A lookup
\* value[unicode(k)] of a key the mapping does not have raises KeyError,
\* which the `except TypeError` does not catch
ForceList(v) ==
    CASE v.t = "none" -> [raised |-> NoExc, list |-> <<>>]
      [] v.t = "list" -> [raised |-> NoExc, list |-> v.elems]
      [] v.t = "dict" ->
            LET ints == SortedInts(DOMAIN v.elems)
                missing == {i \in 1..Len(ints) : FormatInt(ints[i]) \notin DOMAIN v.elems}
            IN  IF missing # {}
                THEN [raised |-> Exc("KeyError", EmptyMap,
                                     <<FormatInt(ints[CHOOSE i \in missing :
                                                    \A j \in missing : i <= j])>>),
                      list |-> <<>>]
                ELSE [raised |-> NoExc,
                      list |-> [i \in 1..Len(ints) |-> v.elems[FormatInt(ints[i])]]]

\* self.field.to_native(item, context) of the inner field
InnerToNative(item) == Native(item)

\* ListType.to_native(value): the list of coerced items, or the exception
ToNative(v) ==
    LET forced == ForceList(v)
    IN  [raised |-> forced.raised,
         list |-> [i \in 1..Len(forced.list) |-> InnerToNative(forced.list[i])]]

\* The message of check_length: the wording and the number put in for %d
Message(template, n) == [template |-> template, arg |-> n]

\* the message for a violated min_size
MinMessage(min) ==
    Message(IF min = 1 THEN "Please provide at least %d item."
            ELSE "Please provide at least %d items.", min)

\* A faulty variant of MaxMessage: a bound of 0 gets the singular wording too
MaxMessageSingularUpTo1(max) ==
    Message(IF max <= 1 THEN "Please provide no more than %d item."
            ELSE "Please provide no more than %d items.", max)

\* the message for a violated max_size
MaxMessage(max) ==
    Message(IF max = 1 THEN "Please provide no more than %d item."
            ELSE "Please provide no more than %d items.", max)

\* list_length = len(value) if value else 0
ListLength(v) == IF Truthy(v) THEN SizeOf(v) ELSE 0

\* ListType.check_length(value): the ValidationError it raises, or NoExc
CheckLength(v, min, max) ==
    IF min # NoSize /\ ListLength(v) < min
    THEN Exc("ValidationError", EmptyMap, <<MinMessage(min)>>)
    ELSE IF max # NoSize /\ ListLength(v) > max
    THEN Exc("ValidationError", EmptyMap, <<MaxMessage(max)>>)
    ELSE NoExc

Sizes == {NoSize} \cup 0..MaxSize

CheckLengthInputs ==
    {NoneV} \cup {ListV([i \in 1..n |-> Native(i)]) : n \in 0..MaxLen}

InitList ==
    \/ /\ lstatus = "to_native"
       /\ lValue \in ToNativeInputs
       /\ lMin = NoSize
       /\ lMax = NoSize
       /\ lResult = <<>>
       /\ lRaised = NoExc
    \/ /\ lstatus = "check_length"
       /\ lValue \in CheckLengthInputs
       /\ lMin \in Sizes
       /\ lMax \in Sizes
       /\ lResult = <<>>
       /\ lRaised = NoExc

IdleList ==
    /\ lstatus = "idle"
    /\ lValue = NoneV
    /\ lMin = NoSize
    /\ lMax = NoSize
    /\ lResult = <<>>
    /\ lRaised = NoExc

\* ListType.to_native(value, context)
ToNativeCall ==
    /\ lstatus = "to_native"
    /\ lResult' = ToNative(lValue).list
    /\ lRaised' = ToNative(lValue).raised
    /\ lstatus' = IF ToNative(lValue).raised = NoExc
                  THEN "to_native returned" ELSE "to_native raised"
    /\ UNCHANGED <<lValue, lMin, lMax, vVars, dVars, xVars, sVars>>

\* ListType.check_length(value)
CheckLengthCall ==
    /\ lstatus = "check_length"
    /\ lRaised' = CheckLength(lValue, lMin, lMax)
    /\ lstatus' = IF CheckLength(lValue, lMin, lMax) = NoExc
                  THEN "check_length returned" ELSE "check_length raised"
    /\ UNCHANGED <<lValue, lMin, lMax, lResult, vVars, dVars, xVars, sVars>>

NextList ==
    \/ ToNativeCall
    \/ CheckLengthCall

\* The orders of the keys ks by ascending integer value
AscendingOrders(ks) ==
    {p \in [1..Cardinality(ks) -> ks] :
        /\ \A i, j \in DOMAIN p : i # j => p[i] # p[j]
        /\ \A i, j \in DOMAIN p : i < j => ParseInt(p[i]) <= ParseInt(p[j])}

\* C8: to_native of a keyed mapping whose keys are all strings of an integer
\* yields a list with one element per key, by ascending integer value of the
\* keys, each the inner field's coercion of the value under that key.
C8_KeyedMappingInKeyOrder ==
    (lstatus \in {"to_native returned", "to_native raised"} /\ lValue.t = "dict") =>
       /\ lstatus = "to_native returned"
       /\ Len(lResult) = Cardinality(DOMAIN lValue.elems)
       /\ \E p \in AscendingOrders(DOMAIN lValue.elems) :
             \A i \in DOMAIN p : lResult[i] = InnerToNative(lValue.elems[p[i]])

\* The same for keys in the form unicode() writes an integer (it holds of
\* the code).
CanonicalKeysInKeyOrder ==
    (/\ lstatus \in {"to_native returned", "to_native raised"}
     /\ lValue.t = "dict"
     /\ \A k \in DOMAIN lValue.elems : FormatInt(ParseInt(k)) = k) =>
       /\ lstatus = "to_native returned"
       /\ Len(lResult) = Cardinality(DOMAIN lValue.elems)
       /\ \E p \in AscendingOrders(DOMAIN lValue.elems) :
             \A i \in DOMAIN p : lResult[i] = InnerToNative(lValue.elems[p[i]])

\* The number of elements check_length counts
Count == IF lValue.t = "none" THEN 0 ELSE Len(lValue.elems)

BelowMin == lMin # NoSize /\ Count < lMin

AboveMax == lMax # NoSize /\ Count > lMax

\* C9: check_length fails exactly when the element count (0 for None or an
\* empty value) is below a min_size that is set or above a max_size that is
\* set; the message names a violated bound, in singular wording exactly when
\* that bound is 1.
C9_LengthBounds ==
    lstatus \in {"check_length returned", "check_length raised"} =>
       /\ (lstatus = "check_length raised") <=> (BelowMin \/ AboveMax)
       /\ lstatus = "check_length raised" =>
             /\ lRaised.kind = "ValidationError"
             /\ Len(lRaised.list) = 1
             /\ \/ /\ BelowMin
                   /\ lRaised.list[1].arg = lMin
                   /\ lRaised.list[1].template =
                         IF lMin = 1 THEN "Please provide at least %d item."
                         ELSE "Please provide at least %d items."
                \/ /\ AboveMax
                   /\ lRaised.list[1].arg = lMax
                   /\ lRaised.list[1].template =
                         IF lMax = 1 THEN "Please provide no more than %d item."
                         ELSE "Please provide no more than %d items."

\* An empty list under max_size = 0 passes; an empty list under min_size = 1
\* fails in the singular: the witness is the second
C9_Witness ==
    /\ lstatus = "check_length raised"
    /\ lMin = 1
    /\ Count = 0
    /\ lRaised.list[1] = Message("Please provide at least %d item.", 1)

InitSpecValidate == InitValidate /\ IdleDict /\ IdleExport /\ IdleSentinel /\ IdleList

InitSpecDict == InitDict /\ IdleValidate /\ IdleExport /\ IdleSentinel /\ IdleList

InitSpecExport == InitExport /\ IdleValidate /\ IdleDict /\ IdleSentinel /\ IdleList

InitSpecSentinel == InitSentinel /\ IdleValidate /\ IdleDict /\ IdleExport /\ IdleList

InitSpecList == InitList /\ IdleValidate /\ IdleDict /\ IdleExport /\ IdleSentinel

SpecValidate == InitSpecValidate /\ [][NextValidate]_vars

SpecDict == InitSpecDict /\ [][NextDict]_vars

SpecExport == InitSpecExport /\ [][NextExport]_vars

SpecSentinel == InitSpecSentinel /\ [][NextSentinel]_vars

SpecList == InitSpecList /\ [][NextList]_vars

====
